---- MODULE Spec2Model ----
(***************************************************************************)
(* har-replay-proxy: the request listener of src/index.js.                 *)
(*                                                                         *)
(* A recorded trace (HAR entries), a compiled configuration (mappings,     *)
(* replacements, response header transforms) and a file system are fixed   *)
(* at construction.  Each request is handled by the listener; a request    *)
(* whose URL a mapping maps to a local path waits for fs.readFile and is   *)
(* finished by the readFile callback.                                      *)
(*                                                                         *)
(* JavaScript values are represented as follows.                           *)
(*   - A string that the code only tests for truthiness is a TLA+ string,  *)
(*     "" standing for undefined / null / "".                              *)
(*   - A missing status is 0 (falsy, as undefined is).                     *)
(*   - An optional object is a sequence: << >> is undefined, <<x>> is x.   *)
(*   - Text content is a sequence of one-character strings; a Buffer is a  *)
(*     sequence of byte values.                                            *)
(*   - A path is [abs, segs]; the relative path with no segments is the    *)
(*     empty string (falsy), which also stands for a mapping's undefined.  *)
(***************************************************************************)
EXTENDS Integers, Sequences, FiniteSets, TLC

VARIABLES
  entries,  \* the recorded exchanges (har.log.entries), as loaded
  buffers,  \* entry.response.content.buffer of each exchange, None if unset
  options,  \* config (mappings, replacements, header transforms),
            \* resolvePath and fs, as given to makeRequestListener
  traffic,  \* the requests (method, url) the clients send
  req       \* per request: position, request, matched entry (0: none), shim
            \* entry, local path, readFile calls, calls of replacement
            \* functions, response, response summary and console.error lines

vars == <<entries, buffers, options, traffic, req>>

\* ------------------------------------------------------------------ bounds
MaxRequests == 2
MaxEntries == 2
MaxMappings == 2
MaxHeaders == 2
MaxTransforms == 2
MaxSize == 4

\* ------------------------------------------------------- generic helpers
None == << >>

Some(x) == <<x>>

SeqsUpTo(S, n) == UNION {[1..k -> S] : k \in 0..n}

\* ------------------------------------------------------------------ text
\* 'utf8' encoding of the characters the model uses (all ASCII).
CharCode ==
  [c \in {"A", "H", "Q", "h", "i", "="} |->
     CASE c = "A" -> 65 [] c = "H" -> 72 [] c = "Q" -> 81
       [] c = "h" -> 104 [] c = "i" -> 105 [] c = "=" -> 61]

Chars == DOMAIN CharCode

CodeChar(b) == CHOOSE c \in Chars : CharCode[c] = b

\* Buffer.from(text, 'utf8')
Utf8Encode(text) == [k \in 1..Len(text) |-> CharCode[text[k]]]

\* buffer.toString('utf8')
Utf8Decode(bytes) == [k \in 1..Len(bytes) |-> CodeChar(bytes[k])]

\* The 6-bit value of a base64 digit; -1 for a character outside the alphabet.
B64Value(c) ==
  CASE c = "A" -> 0 [] c = "H" -> 7 [] c = "Q" -> 16
    [] c = "h" -> 33 [] c = "i" -> 34 [] OTHER -> -1

RECURSIVE B64Digits(_)
\* The digits up to the first padding character, characters outside the
\* alphabet skipped.
B64Digits(text) ==
  IF text = << >> \/ Head(text) = "=" THEN << >>
  ELSE IF B64Value(Head(text)) < 0 THEN B64Digits(Tail(text))
  ELSE <<B64Value(Head(text))>> \o B64Digits(Tail(text))

RECURSIVE B64Bytes(_)
B64Bytes(d) ==
  IF Len(d) >= 4 THEN
    LET n == d[1] * 262144 + d[2] * 4096 + d[3] * 64 + d[4]
    IN  <<n \div 65536, (n \div 256) % 256, n % 256>>
          \o B64Bytes(SubSeq(d, 5, Len(d)))
  ELSE IF Len(d) = 3 THEN
    LET n == d[1] * 4096 + d[2] * 64 + d[3]
    IN  <<n \div 1024, (n \div 4) % 256>>
  ELSE IF Len(d) = 2 THEN <<(d[1] * 64 + d[2]) \div 16>>
  ELSE << >>

\* Buffer.from(text, 'base64')
Base64Decode(text) == B64Bytes(B64Digits(text))

\* c.toUpperCase() for the letters of the encoding names; other characters
\* (digits, the hyphen) have no other case.
UpperCase(c) ==
  CASE c = "a" -> "A" [] c = "b" -> "B" [] c = "c" -> "C" [] c = "e" -> "E"
    [] c = "f" -> "F" [] c = "h" -> "H" [] c = "i" -> "I" [] c = "l" -> "L"
    [] c = "n" -> "N" [] c = "r" -> "R" [] c = "s" -> "S" [] c = "t" -> "T"
    [] c = "u" -> "U" [] c = "x" -> "X" [] c = "y" -> "Y" [] OTHER -> c

RECURSIVE Spellings(_)
\* Every spelling of a lower-case word, each letter in either case: the
\* strings whose toLowerCase() is the word.
Spellings(word) ==
  IF word = << >> THEN {""}
  ELSE {c \o rest : c \in {Head(word), UpperCase(Head(word))},
                    rest \in Spellings(Tail(word))}

Utf8Names ==
  {""} \cup Spellings(<<"u", "t", "f", "8">>)
       \cup Spellings(<<"u", "t", "f", "-", "8">>)

Utf16leNames ==
  Spellings(<<"u", "c", "s", "2">>)
    \cup Spellings(<<"u", "c", "s", "-", "2">>)
    \cup Spellings(<<"u", "t", "f", "1", "6", "l", "e">>)
    \cup Spellings(<<"u", "t", "f", "-", "1", "6", "l", "e">>)

Latin1Names ==
  Spellings(<<"l", "a", "t", "i", "n", "1">>)
    \cup Spellings(<<"b", "i", "n", "a", "r", "y">>)

Base64Names ==
  Spellings(<<"b", "a", "s", "e", "6", "4">>)
    \cup Spellings(<<"b", "a", "s", "e", "6", "4", "u", "r", "l">>)

HexNames == Spellings(<<"h", "e", "x">>)

AsciiNames == Spellings(<<"a", "s", "c", "i", "i">>)

\* The encoding Buffer.from(string, encoding) takes a name for: names are
\* matched without regard to case, no name stands for utf8, base64url is
\* decoded as base64 is, and "" is an unknown encoding.
EncodingName(charset) ==
  CASE charset \in Utf8Names -> "utf8"
    [] charset \in Utf16leNames -> "utf16le"
    [] charset \in Latin1Names -> "latin1"
    [] charset \in Base64Names -> "base64"
    [] charset \in HexNames -> "hex"
    [] charset \in AsciiNames -> "ascii"
    [] OTHER -> ""

\* Buffer.from(string, encoding) raises a TypeError for an unknown encoding.
IsEncoding(charset) == EncodingName(charset) # ""

\* The value of a hexadecimal digit; -1 for any other character.
HexValue(c) == IF c = "A" THEN 10 ELSE -1

RECURSIVE HexDecode(_)
\* Buffer.from(text, 'hex'): one byte per pair of digits, up to the first
\* pair that is not hexadecimal.
HexDecode(text) ==
  IF Len(text) < 2 \/ HexValue(text[1]) < 0 \/ HexValue(text[2]) < 0
  THEN << >>
  ELSE <<16 * HexValue(text[1]) + HexValue(text[2])>>
         \o HexDecode(SubSeq(text, 3, Len(text)))

RECURSIVE Utf16Encode(_)
\* Buffer.from(text, 'utf16le'): two bytes per character, low byte first.
Utf16Encode(text) ==
  IF text = << >> THEN << >>
  ELSE <<CharCode[Head(text)], 0>> \o Utf16Encode(Tail(text))

\* Buffer.from(text, charset) for a known encoding; utf8, latin1 and ascii
\* give the same bytes for the (ASCII) characters of the model.
BufferFrom(text, charset) ==
  CASE EncodingName(charset) = "utf16le" -> Utf16Encode(text)
    [] EncodingName(charset) = "base64" -> Base64Decode(text)
    [] EncodingName(charset) = "hex" -> HexDecode(text)
    [] OTHER -> Utf8Encode(text)

\* ----------------------------------------------------------------- paths
Path(abs, segs) == [abs |-> abs, segs |-> segs]

NoPath == Path(FALSE, << >>)

Truthy(p) == p.abs \/ p.segs # << >>

RECURSIVE Normalize(_, _)
\* Segments of a path with "." dropped and ".." applied.
Normalize(done, segs) ==
  IF segs = << >> THEN done
  ELSE IF Head(segs) = "." THEN Normalize(done, Tail(segs))
  ELSE IF Head(segs) = ".." THEN
    Normalize(IF done = << >> THEN done ELSE SubSeq(done, 1, Len(done) - 1),
              Tail(segs))
  ELSE Normalize(Append(done, Head(segs)), Tail(segs))

\* PATH.resolve(from, to), from an absolute directory.
PathResolve(from, to) ==
  IF to.abs THEN Path(TRUE, Normalize(<< >>, to.segs))
  ELSE Path(TRUE, Normalize(<< >>, from.segs \o to.segs))

RECURSIVE JoinSegs(_)
JoinSegs(segs) ==
  IF segs = << >> THEN "" ELSE "/" \o Head(segs) \o JoinSegs(Tail(segs))

\* The string of an absolute path.
PathString(p) == IF p.segs = << >> THEN "/" ELSE JoinSegs(p.segs)

\* mime.getType(path): by the extension of the last segment.
MimeGetType(p) ==
  LET name == IF p.segs = << >> THEN "" ELSE p.segs[Len(p.segs)]
  IN  CASE name = "app.js" -> "application/javascript"
        [] name = "page.html" -> "text/html"
        [] OTHER -> ""

\* ------------------------------------------------------------------ URLs
Urls == {"http://x/a", "http://x/a?k=1", "http://x/b"}

\* URL.parse(url, true): the pathname and the query parameters of a URL.
UrlParse(url) ==
  CASE url = "http://x/a" -> [pathname |-> "/a", query |-> {}]
    [] url = "http://x/a?k=1" -> [pathname |-> "/a", query |-> {<<"k", "1">>}]
    [] url = "http://x/b" -> [pathname |-> "/b", query |-> {}]

\* --------------------------------------------------------- entry matcher
\* Candidates: the exchanges whose method and URL path equal the request's.
Candidates(es, request) ==
  {i \in 1..Len(es) :
     /\ es[i].request.method = request.method
     /\ UrlParse(es[i].request.url).pathname = UrlParse(request.url).pathname}

QueryNames(q) == {p[1] : p \in q}

\* Parameters equal in name and value, minus parameters on one side only.
Score(entryRequest, request) ==
  LET eq == UrlParse(entryRequest.url).query
      rq == UrlParse(request.url).query
  IN  Cardinality(eq \cap rq)
        - Cardinality((QueryNames(eq) \ QueryNames(rq))
                        \cup (QueryNames(rq) \ QueryNames(eq)))

\* heuristic(entries, request): the index of the selected exchange, 0 for
\* none.  An exact match short-circuits; otherwise the highest score wins
\* and the earliest exchange wins a tie.
Heuristic(es, request) ==
  LET cand == Candidates(es, request)
      exact == {i \in cand :
                  UrlParse(es[i].request.url).query = UrlParse(request.url).query}
      best == {i \in cand :
                 \A j \in cand :
                   Score(es[j].request, request) <= Score(es[i].request, request)}
      Min(S) == CHOOSE i \in S : \A j \in S : i <= j
  IN  IF cand = {} THEN 0
      ELSE IF exact # {} THEN Min(exact)
      ELSE Min(best)

\* --------------------------------------------------------- content types
\* parseContentType: the parsed type of a MIME string, None when the string
\* does not parse.
ParseContentType(s) ==
  CASE s = "text/html" ->
         Some([type |-> "text", subtype |-> "html", charset |-> ""])
    [] s = "text/html;charset=iso-8859-1" ->
         Some([type |-> "text", subtype |-> "html", charset |-> "iso-8859-1"])
    [] s = "application/json" ->
         Some([type |-> "application", subtype |-> "json", charset |-> ""])
    [] s = "application/javascript" ->
         Some([type |-> "application", subtype |-> "javascript", charset |-> ""])
    [] s = "image/svg+xml" ->
         Some([type |-> "image", subtype |-> "svg+xml", charset |-> ""])
    [] s = "image/png" ->
         Some([type |-> "image", subtype |-> "png", charset |-> ""])
    [] s = "application/octet-stream" ->
         Some([type |-> "application", subtype |-> "octet-stream", charset |-> ""])
    [] OTHER -> None

\* ContentType.toString()
ContentTypeString(ct) ==
  ct.type \o "/" \o ct.subtype
    \o (IF ct.charset = "" THEN "" ELSE ";charset=" \o ct.charset)

IsText(ct) == ct.type = "text"

IsXML(ct) ==
  \/ ct.subtype = "xml" /\ ct.type \in {"text", "application"}
  \/ ct.subtype \in {"svg+xml", "xhtml+xml", "atom+xml"}

\* extractContentType(harEntry)
ExtractContentType(entryResponse) ==
  ParseContentType(IF entryResponse.content.mimeType = ""
                   THEN "application/octet-stream"
                   ELSE entryResponse.content.mimeType)

\* isBinary(ct) raises a TypeError on a null ct: `ct && ct.isText()` is null
\* and `ct.isXML()` is then evaluated.
IsBinaryThrows(ct) == ct = None

\* isBinary without the test of the subtype json.
IsBinaryJsonIncluded(ct) == ~(IsText(ct[1]) \/ IsXML(ct[1]))

\* isBinary(ct) for a parsed type.
IsBinary(ct) == ~(IsText(ct[1]) \/ IsXML(ct[1]) \/ ct[1].subtype = "json")

\* ---------------------------------------------------------- replacements
\* A literal replacement rule: every occurrence of `match` becomes `replace`.
ApplyReplacement(rule, content) ==
  LET Piece(c) == IF c = rule.match THEN rule.replace ELSE <<c>>
      F[k \in 0..Len(content)] ==
        IF k = 0 THEN << >> ELSE F[k - 1] \o Piece(content[k])
  IN  F[Len(content)]

\* replacements.forEach(replacement => content = replacement(content, context))
ApplyReplacements(rules, content) ==
  LET F[k \in 0..Len(rules)] ==
        IF k = 0 THEN content ELSE ApplyReplacement(rules[k], F[k - 1])
  IN  F[Len(rules)]

\* ------------------------------------------------------ header transforms
\* A literal header transform: a header whose name is nameMatch ("" matches
\* every name) gets nameImage and valueImage ("" keeps the part as it is).
ApplyTransform(t, pair) ==
  IF t.nameMatch = "" \/ t.nameMatch = pair.name
  THEN [name |-> IF t.nameImage = "" THEN pair.name ELSE t.nameImage,
        value |-> IF t.valueImage = "" THEN pair.value ELSE t.valueImage]
  ELSE pair

\* config.responseHeaderTransforms.forEach(...)
ApplyTransforms(ts, pair) ==
  LET F[k \in 0..Len(ts)] ==
        IF k = 0 THEN pair ELSE ApplyTransform(ts[k], F[k - 1])
  IN  F[Len(ts)]

\* --------------------------------------------------------- HTTP response
\* name.toLowerCase() on the header names the model uses.
ToLowerCase(name) ==
  CASE name \in {"Content-Type", "content-type"} -> "content-type"
    [] name \in {"Content-Length", "content-length"} -> "content-length"
    [] name \in {"Content-Encoding", "content-encoding"} -> "content-encoding"
    [] name \in {"Cache-Control", "cache-control"} -> "cache-control"
    [] name \in {"PRAGMA", "pragma"} -> "pragma"
    [] name \in {"X-Foo", "x-foo"} -> "x-foo"
    [] name \in {"X-Len", "x-len"} -> "x-len"

\* A fresh http.ServerResponse: status code 200, nothing written, not ended.
NewResponse ==
  [statusCode |-> 200, statusMessage |-> "", setHeaderCalls |-> << >>,
   headers |-> << >>, body |-> None, ended |-> 0]

HeaderIndex(headers, name) ==
  {k \in 1..Len(headers) : headers[k].key = ToLowerCase(name)}

\* response.getHeader(name): the values held under the name, << >> if none.
GetHeader(headers, name) ==
  IF HeaderIndex(headers, name) = {} THEN << >>
  ELSE headers[CHOOSE k \in HeaderIndex(headers, name) : TRUE].values

\* response.setHeader(name, values): http.ServerResponse keeps one header per
\* lower-cased name.
SetHeader(headers, name, values) ==
  LET new == [key |-> ToLowerCase(name), name |-> name, values |-> values]
  IN  IF HeaderIndex(headers, name) = {} THEN Append(headers, new)
      ELSE [headers EXCEPT ![CHOOSE k \in HeaderIndex(headers, name) : TRUE] = new]

\* response.writeHead(status, message, headers) with one header.
WriteHead(response, status, message, name, value) ==
  [response EXCEPT !.statusCode = status, !.statusMessage = message,
                   !.headers = SetHeader(@, name, <<value>>)]

\* response.end raises a RangeError (invalid status code), before anything
\* is written, on a response whose status code is missing or not in 100..999.
EndThrows(response) == response.statusCode < 100 \/ response.statusCode > 999

\* response.end(content); the response is left as it is when end raises.
End(response, content) ==
  IF EndThrows(response) THEN response
  ELSE [response EXCEPT !.body = Some(content), !.ended = @ + 1]

StringBody(parts) == [parts |-> parts, bytes |-> << >>]

BufferBody(bytes) == [parts |-> << >>, bytes |-> bytes]

RECURSIVE PartsLength(_)
PartsLength(parts) ==
  IF parts = << >> THEN 0 ELSE Len(Head(parts)) + PartsLength(Tail(parts))

\* content.length
BodyLength(body) == PartsLength(body.parts) + Len(body.bytes)

\* new ResponseSummary(status, contentType, origin, content)
ResponseSummary(status, contentType, origin, content) ==
  [status |-> status, contentType |-> contentType,
   contentLength |-> BodyLength(content), origin |-> origin]

\* ------------------------------------------------------------- serveError
TextPlain == "text/plain; charset=UTF-8"

BlockedNote ==
  "\n\nThis resource might have been blocked by the client recording the HAR file. For example, by the AdBlock or Ghostery extensions."

\* JSON.stringify of a string without special characters.
JsonStringify(str) == "\"" \o str \o "\""

\* serveError with the missing entry folded into the blocked test: a request
\* without an entry is answered 410.
ServeErrorMissingIsBlocked(response, entryResponse, localPath) ==
  LET error == IF entryResponse # None /\ entryResponse[1].error # ""
               THEN JsonStringify(entryResponse[1].error)
               ELSE "Missing status"
      content == StringBody(<<"HAR response error: ", error, BlockedNote>>)
  IN  IF entryResponse = None \/ entryResponse[1].error # ""
         \/ entryResponse[1].status = 0
      THEN [served |-> TRUE,
            response |-> End(WriteHead(response, 410, error,
                                       "content-type", TextPlain), content),
            summary |-> Some(ResponseSummary(410, TextPlain, "clientblocked",
                                             content))]
      ELSE [served |-> FALSE, response |-> response, summary |-> None]

\* serveError without the test for a missing status.
ServeErrorIgnoresStatus(response, entryResponse, localPath) ==
  IF entryResponse = None THEN
    LET content == StringBody(<<"404 Not found">>)
    IN  [served |-> TRUE,
         response |-> End(WriteHead(response, 404, "Not found",
                                    "content-type", TextPlain), content),
         summary |-> Some(ResponseSummary(404, TextPlain, "noentrymatch", content))]
  ELSE IF entryResponse[1].error # "" THEN
    LET error == JsonStringify(entryResponse[1].error)
        content == StringBody(<<"HAR response error: ", error, BlockedNote>>)
    IN  [served |-> TRUE,
         response |-> End(WriteHead(response, 410, error,
                                    "content-type", TextPlain), content),
         summary |-> Some(ResponseSummary(410, TextPlain, "clientblocked", content))]
  ELSE [served |-> FALSE, response |-> response, summary |-> None]

\* serveError(options, request, response, entryResponse, localPath):
\* entryResponse is None (no entry, or a failed file read) or Some(response of
\* the entry).  The result holds `served` (the return value), the response
\* and the summary handed to logInteraction.
ServeError(response, entryResponse, localPath) ==
  IF entryResponse = None THEN
    LET content == StringBody(<<"404 Not found">>)
    IN  [served |-> TRUE,
         response |-> End(WriteHead(response, 404, "Not found",
                                    "content-type", TextPlain), content),
         summary |-> Some(ResponseSummary(404, TextPlain, "noentrymatch", content))]
  ELSE IF entryResponse[1].error # "" \/ entryResponse[1].status = 0 THEN
    LET error == IF entryResponse[1].error # ""
                 THEN JsonStringify(entryResponse[1].error)
                 ELSE "Missing status"
        content == StringBody(<<"HAR response error: ", error, BlockedNote>>)
    IN  [served |-> TRUE,
         response |-> End(WriteHead(response, 410, error,
                                    "content-type", TextPlain), content),
         summary |-> Some(ResponseSummary(410, TextPlain, "clientblocked", content))]
  ELSE [served |-> FALSE, response |-> response, summary |-> None]

\* ----------------------------------------------------------- serveHeaders
DroppedNames == {"content-length", "content-encoding", "cache-control", "pragma"}

\* The status sent without the rewrite of 304.
ServedStatusUnchanged(status) == status

\* The status sent for a recorded status.
ServedStatus(status) == IF status = 304 THEN 200 ELSE status

\* The pair of one recorded header with the transforms applied and no
\* content-type rewrite.
EmittedPairNoRewrite(header, contentType, config) ==
  ApplyTransforms(config.responseHeaderTransforms,
                  [name |-> header.name, value |-> header.value])

\* The pair of one recorded header after the content-type rewrite and the
\* transforms.
EmittedPair(header, contentType, config) ==
  ApplyTransforms(config.responseHeaderTransforms,
                  [name |-> header.name,
                   value |-> IF ToLowerCase(header.name) = "content-type"
                             THEN contentType ELSE header.value])

\* The skip test without toLowerCase().
DroppedCaseSensitive(pair) == pair.name \in DroppedNames

\* Whether the loop skips the pair (`continue`).
Dropped(pair) == ToLowerCase(pair.name) \in DroppedNames

\* One iteration of the header loop on the response.
EmitHeader(response, pair) ==
  IF Dropped(pair) THEN response
  ELSE LET existing == GetHeader(response.headers, pair.name)
       IN  [response EXCEPT
              !.setHeaderCalls = Append(@, pair),
              !.headers =
                 IF existing # << >> /\ existing # <<"">>
                 THEN SetHeader(@, pair.name, Append(existing, pair.value))
                 ELSE SetHeader(@, pair.name, <<pair.value>>)]

\* serveHeaders(response, entryResponse, contentType, config): the response
\* with the status and the headers set.
ServeHeaders(response, entryResponse, contentType, config) ==
  LET hs == entryResponse.headers
      F[h \in 0..Len(hs)] ==
        IF h = 0
        THEN [response EXCEPT !.statusCode = ServedStatus(entryResponse.status)]
        ELSE EmitHeader(F[h - 1], EmittedPair(hs[h], contentType, config))
      looped == F[Len(hs)]
  IN  [looped EXCEPT
         !.headers = SetHeader(SetHeader(@, "cache-control",
                                         <<"no-cache, no-store, must-revalidate">>),
                               "pragma", <<"no-cache">>)]

\* The size test without its upper limit: any text long enough for the
\* declared size counts as base64.
IsBase64EncodedNoUpperLimit(entryResponse) ==
  LET size == entryResponse.content.size
      contentSize == Len(entryResponse.content.text)
  IN  /\ entryResponse.content.text # << >>
      /\ contentSize # 0
      /\ 3 * contentSize >= 4 * size

\* ------------------------------------------------------------- serveEntry
\* isBase64Encoded(entryResponse): size / 0.75 <= length <= size / 0.75 + 4,
\* in integers.
IsBase64Encoded(entryResponse) ==
  LET size == entryResponse.content.size
      contentSize == Len(entryResponse.content.text)
  IN  /\ entryResponse.content.text # << >>
      /\ contentSize # 0
      /\ 3 * contentSize >= 4 * size
      /\ 3 * contentSize <= 4 * size + 12

\* The buffer serveEntry stores on an exchange that has none.
DecodedBuffer(entryResponse) ==
  IF IsBase64Encoded(entryResponse)
  THEN Base64Decode(entryResponse.content.text)
  ELSE Utf8Encode(entryResponse.content.text)

\* `!content` for the content manipulateContent ends with: a Buffer is an
\* object, and an object is never falsy, whatever its length.
BufferIsFalsy(bytes) == FALSE

\* manipulateContent(request, entry, replacements) on the entry's buffer.
\* thrown: a TypeError left the function (isBinary on a null type, or
\* Buffer.from with an unknown encoding).  invoked: the number of calls of
\* replacement functions.
ManipulateContent(entryResponse, buffer, replacements) ==
  LET ct == ExtractContentType(entryResponse)
      failed == [thrown |-> TRUE, content |-> << >>, contentType |-> "",
                 sizeError |-> FALSE, invoked |-> 0]
  IN  IF IsBinaryThrows(ct) THEN failed
      ELSE IF IsBinary(ct) THEN
        [thrown |-> FALSE, content |-> buffer,
         contentType |-> ContentTypeString(ct[1]),
         sizeError |-> entryResponse.content.size > 0 /\ BufferIsFalsy(buffer),
         invoked |-> 0]
      ELSE
        LET text == ApplyReplacements(replacements, Utf8Decode(buffer))
            charset == IF ct[1].charset = "" THEN "utf8" ELSE ct[1].charset
            content == BufferFrom(text, charset)
        IN  IF ~IsEncoding(charset)
            THEN [failed EXCEPT !.invoked = Len(replacements)]
            ELSE [thrown |-> FALSE, content |-> content,
                  contentType |-> ContentTypeString([ct[1] EXCEPT !.charset = charset]),
                  sizeError |-> entryResponse.content.size > 0
                                  /\ BufferIsFalsy(content),
                  invoked |-> Len(replacements)]

\* new TypedContent(buffer, mimeType).getContentType()
GetContentType(mimeType) ==
  IF mimeType = "" THEN "application/octet-stream" ELSE mimeType

\* serveEntry(options, request, response, entry, config).  buffer is the
\* entry's content.buffer (None when unset).  The result holds the buffer the
\* entry has afterwards, the response, the summary and whether an error left
\* the function: manipulateContent's, or the RangeError of response.end for
\* an exchange without a valid status.
ServeEntry(response, entryResponse, buffer, config) ==
  LET decoded == IF buffer = None THEN DecodedBuffer(entryResponse) ELSE buffer[1]
      typed == ManipulateContent(entryResponse, decoded, config.replacements)
      contentType == GetContentType(typed.contentType)
      content == BufferBody(typed.content)
      headed == ServeHeaders(response, entryResponse, contentType, config)
  IN  IF typed.thrown
      THEN [thrown |-> TRUE, buffer |-> Some(decoded), response |-> response,
            summary |-> None, sizeError |-> FALSE, invoked |-> typed.invoked]
      ELSE IF EndThrows(headed)
      THEN [thrown |-> TRUE, buffer |-> Some(decoded), response |-> headed,
            summary |-> None, sizeError |-> typed.sizeError,
            invoked |-> typed.invoked]
      ELSE [thrown |-> FALSE, buffer |-> Some(decoded),
            response |-> End(headed, content),
            summary |-> Some(ResponseSummary(headed.statusCode, contentType,
                                             "matchedentry", content)),
            sizeError |-> typed.sizeError, invoked |-> typed.invoked]

\* --------------------------------------------------------------- listener
\* The mapping loop without its break: the last mapping that yields a path
\* wins and every mapping is called.
MapRequestLastWins(mappings, url, resolvePath) ==
  LET hits == {i \in 1..Len(mappings) : Truthy(mappings[i][url])}
      last == CHOOSE i \in hits : \A j \in hits : j <= i
  IN  IF hits = {}
      THEN [localPath |-> NoPath, consulted |-> Len(mappings)]
      ELSE [localPath |-> PathResolve(resolvePath, mappings[last][url]),
            consulted |-> Len(mappings)]

\* The mapping loop: the first mapping whose result is truthy, resolved
\* against resolvePath; `consulted` counts the mappings called.
MapRequest(mappings, url, resolvePath) ==
  LET hits == {i \in 1..Len(mappings) : Truthy(mappings[i][url])}
      first == CHOOSE i \in hits : \A j \in hits : i <= j
  IN  IF hits = {}
      THEN [localPath |-> NoPath, consulted |-> Len(mappings)]
      ELSE [localPath |-> PathResolve(resolvePath, mappings[first][url]),
            consulted |-> first]

\* The shim entry made for a mapped request that matches no exchange.
ShimResponse(localPath) ==
  [status |-> 200, error |-> "",
   headers |-> <<[name |-> "Content-Type", value |-> MimeGetType(localPath)]>>,
   content |-> [mimeType |-> MimeGetType(localPath), size |-> 0, text |-> << >>]]

\* fs.readFile(path, callback): the content read, None for an error.
ReadFile(fs, path) ==
  IF \E f \in fs : f.path = path
  THEN Some((CHOOSE f \in fs : f.path = path).content)
  ELSE None

IdleRequest ==
  [pc |-> "idle", method |-> "", url |-> "", entry |-> 0, shim |-> None,
   shimBuffer |-> None, localPath |-> NoPath, consulted |-> 0,
   readFileCalls |-> << >>, replacementCalls |-> 0, response |-> NewResponse,
   summary |-> None, errors |-> << >>]

\* The response of the entry a request works on.
EntryResponse(r) ==
  IF req[r].shim # None THEN req[r].shim[1] ELSE entries[req[r].entry].response

\* What a call of serveEntry leaves in a request record.
Served(rec, out) ==
  [rec EXCEPT !.pc = IF out.thrown THEN "crashed" ELSE "done",
              !.response = out.response,
              !.summary = out.summary,
              !.replacementCalls = @ + out.invoked,
              !.errors = IF out.sizeError
                         THEN Append(@, <<"Error:", "has a non-zero size, but there is no content in the HAR file">>)
                         ELSE @]

\* The request listener, up to the end of the response or the readFile call.
Listener(r) ==
  /\ req[r].pc = "idle"
  /\ IF r = 1 THEN TRUE ELSE req[r - 1].pc # "idle"
  /\ \E request \in traffic :
       LET entry == Heuristic(entries, request)
           mapped == MapRequest(options.config.mappings, request.url,
                                options.resolvePath)
           started == [req[r] EXCEPT !.method = request.method,
                                     !.url = request.url,
                                     !.entry = entry,
                                     !.localPath = mapped.localPath,
                                     !.consulted = mapped.consulted]
       IN  IF Truthy(mapped.localPath) THEN
             /\ req' = [req EXCEPT ![r] =
                  [started EXCEPT
                     !.pc = "reading",
                     !.shim = IF entry = 0
                              THEN Some(ShimResponse(mapped.localPath)) ELSE None,
                     !.readFileCalls = Append(@, mapped.localPath)]]
             /\ UNCHANGED buffers
           ELSE
             LET err == ServeError(started.response,
                                   IF entry = 0 THEN None
                                   ELSE Some(entries[entry].response),
                                   NoPath)
                 out == ServeEntry(started.response, entries[entry].response,
                                   buffers[entry], options.config)
             IN  IF err.served THEN
                   /\ req' = [req EXCEPT ![r] =
                        [started EXCEPT !.pc = "done",
                                        !.response = err.response,
                                        !.summary = err.summary]]
                   /\ UNCHANGED buffers
                 ELSE
                   /\ req' = [req EXCEPT ![r] = Served(started, out)]
                   /\ buffers' = [buffers EXCEPT ![entry] = out.buffer]
  /\ UNCHANGED <<entries, options, traffic>>

\* The callback of fs.readFile.
ReadFileDone(r) ==
  /\ req[r].pc = "reading"
  /\ LET read == ReadFile(options.fs, req[r].localPath)
         logged == [req[r] EXCEPT !.errors =
                      Append(@, <<"Error: Could not read",
                                  PathString(req[r].localPath),
                                  "requested from", req[r].url>>)]
         err == ServeError(req[r].response, None, req[r].localPath)
         out == ServeEntry(req[r].response, EntryResponse(r), read,
                           options.config)
     IN  IF read = None THEN
           /\ req' = [req EXCEPT ![r] =
                [logged EXCEPT !.pc = "done",
                               !.response = err.response,
                               !.summary = err.summary]]
           /\ UNCHANGED buffers
         ELSE
           /\ req' = [req EXCEPT ![r] =
                [Served(req[r], out) EXCEPT
                   !.shimBuffer = IF req[r].shim # None THEN out.buffer ELSE @]]
           /\ buffers' = IF req[r].shim # None THEN buffers
                         ELSE [buffers EXCEPT ![req[r].entry] = out.buffer]
  /\ UNCHANGED <<entries, options, traffic>>

Next == \E r \in 1..MaxRequests : Listener(r) \/ ReadFileDone(r)

\* ------------------------------------------------------------------ inputs
Exchange(method, url, status, error, headers, mimeType, size, text) ==
  [request |-> [method |-> method, url |-> url],
   response |-> [status |-> status, error |-> error, headers |-> headers,
                 content |-> [mimeType |-> mimeType, size |-> size,
                              text |-> text]]]

RecordedHeaders ==
  <<[name |-> "Content-Type", value |-> "text/html"],
    [name |-> "Content-Length", value |-> "2"]>>

ExchangePool ==
  {Exchange("GET", "http://x/a", 200, "", RecordedHeaders, "text/html", 2,
            <<"h", "i">>),
   Exchange("GET", "http://x/a?k=1", 304, "", RecordedHeaders, "image/png", 1,
            <<"Q", "Q", "=", "=">>),
   Exchange("GET", "http://x/a", 0, "net::ERR_BLOCKED_BY_CLIENT", << >>, "", 0,
            << >>),
   Exchange("GET", "http://x/b", 0, "", RecordedHeaders, "text/html", 2,
            <<"h", "i">>),
   Exchange("POST", "http://x/a", 200, "", RecordedHeaders, "garbage", 2,
            <<"h", "i">>)}

\* The requests the clients of one run send: the two URLs of the path /a, or
\* the requests of the other method and the other path.
TrafficPool ==
  {{[method |-> "GET", url |-> "http://x/a"],
    [method |-> "GET", url |-> "http://x/a?k=1"]},
   {[method |-> "GET", url |-> "http://x/b"],
    [method |-> "POST", url |-> "http://x/a"]}}

ResolveRoot == Path(TRUE, <<"root", "conf">>)

\* A mapping is its function from URLs to paths, NoPath where it does not match.
MappingPool ==
  {[u \in Urls |-> IF u = "http://x/a?k=1"
                   THEN Path(FALSE, <<".", "public", "app.js">>) ELSE NoPath],
   [u \in Urls |-> Path(FALSE, <<"..", "srv", "page.html">>)]}

Files ==
  {[path |-> Path(TRUE, <<"root", "conf", "public", "app.js">>),
    content |-> Utf8Encode(<<"A">>)],
   [path |-> Path(TRUE, <<"root", "srv", "page.html">>),
    content |-> Utf8Encode(<<"H", "i">>)]}

\* The file system: every mapped file readable, or none.
FsPool == {Files, {}}

Replacements == <<[match |-> "h", replace |-> <<"H", "h">>]>>

Init ==
  /\ entries \in SeqsUpTo(ExchangePool, MaxEntries)
  /\ buffers = [i \in 1..Len(entries) |-> None]
  /\ \E ms \in SeqsUpTo(MappingPool, MaxMappings), fs \in FsPool :
       options = [config |-> [mappings |-> ms, replacements |-> Replacements,
                              responseHeaderTransforms |-> << >>],
                  resolvePath |-> ResolveRoot, fs |-> fs]
  /\ traffic \in TrafficPool
  /\ req = [r \in 1..MaxRequests |-> IdleRequest]

Spec == Init /\ [][Next]_vars

\* ----------------------------------------------- inputs of the header loop
HeaderPool ==
  {[name |-> "Content-Type", value |-> "text/plain"],
   [name |-> "content-length", value |-> "2"],
   [name |-> "Content-Encoding", value |-> "gzip"],
   [name |-> "Cache-Control", value |-> "max-age=60"],
   [name |-> "PRAGMA", value |-> "public"],
   [name |-> "X-Foo", value |-> "bar"]}

TransformPool ==
  {[nameMatch |-> "X-Foo", nameImage |-> "Cache-Control", valueImage |-> ""],
   [nameMatch |-> "content-length", nameImage |-> "X-Len", valueImage |-> ""],
   [nameMatch |-> "X-Foo", nameImage |-> "content-type", valueImage |-> ""],
   [nameMatch |-> "", nameImage |-> "", valueImage |-> "cap"]}

\* One exchange with any recorded header list, any transform list, served
\* from the trace or from a mapped file.
InitHeaders ==
  /\ \E hs \in SeqsUpTo(HeaderPool, MaxHeaders) :
       entries = <<Exchange("GET", "http://x/a", 200, "", hs, "text/html", 2,
                            <<"h", "i">>)>>
  /\ buffers = [i \in 1..Len(entries) |-> None]
  /\ \E ms \in SeqsUpTo({m \in MappingPool : Truthy(m["http://x/a"])}, 1),
        ts \in SeqsUpTo(TransformPool, MaxTransforms) :
       options = [config |-> [mappings |-> ms, replacements |-> Replacements,
                              responseHeaderTransforms |-> ts],
                  resolvePath |-> ResolveRoot, fs |-> Files]
  /\ traffic = {[method |-> "GET", url |-> "http://x/a"]}
  /\ req = [r \in 1..MaxRequests |-> IdleRequest]

SpecHeaders == InitHeaders /\ [][Next]_vars

\* ------------------------------------------- inputs of content handling
MimePool ==
  {"", "text/html", "application/json", "image/svg+xml", "image/png",
   "garbage"}

\* Stored texts of length 0, 1, 2, 4 and 5.
TextPool ==
  {<< >>, <<"Q">>, <<"Q", "Q">>, <<"Q", "Q", "=", "=">>,
   <<"Q", "Q", "=", "=", "=">>}

ReplacementPool ==
  {<< >>,
   <<[match |-> "Q", replace |-> <<"H", "Q">>]>>,
   <<[match |-> "Q", replace |-> << >>], [match |-> "=", replace |-> << >>]>>,
   <<[match |-> "A", replace |-> << >>], [match |-> "H", replace |-> <<"h">>]>>}

\* Mappings that yield a path for http://x/b only.
OtherPathMappings ==
  {[u \in Urls |-> IF u = "http://x/b"
                   THEN Path(FALSE, <<".", "public", "app.js">>) ELSE NoPath],
   [u \in Urls |-> IF u = "http://x/b"
                   THEN Path(FALSE, <<"..", "srv", "page.html">>) ELSE NoPath]}

\* One exchange for http://x/a with any declared size, stored text and MIME
\* type, any replacement list, and http://x/b mapped to a file or not.
InitContent ==
  /\ \E mimeType \in MimePool, size \in 0..MaxSize, text \in TextPool :
       entries = <<Exchange("GET", "http://x/a", 200, "", RecordedHeaders,
                            mimeType, size, text)>>
  /\ buffers = [i \in 1..Len(entries) |-> None]
  /\ \E ms \in SeqsUpTo(OtherPathMappings, 1), rs \in ReplacementPool :
       options = [config |-> [mappings |-> ms, replacements |-> rs,
                              responseHeaderTransforms |-> << >>],
                  resolvePath |-> ResolveRoot, fs |-> Files]
  /\ traffic = {[method |-> "GET", url |-> "http://x/a"],
                [method |-> "GET", url |-> "http://x/b"]}
  /\ req = [r \in 1..MaxRequests |-> IdleRequest]

SpecContent == InitContent /\ [][Next]_vars

\* ================================================================ claims
Requests == 1..MaxRequests

RequestOf(r) == [method |-> req[r].method, url |-> req[r].url]

Started(r) == req[r].pc # "idle"

Finished(r) == req[r].pc \in {"done", "crashed"}

\* The mappings that yield a path for the URL of request r.
Hits(r) ==
  {i \in 1..Len(options.config.mappings) :
     Truthy(options.config.mappings[i][req[r].url])}

\* The exchange the entry matcher selects for request r, 0 for none.
Matched(r) == Heuristic(entries, RequestOf(r))

\* serveEntry produced the response of request r.
ServedEntry(r) ==
  /\ req[r].pc = "done"
  /\ req[r].summary # None
  /\ req[r].summary[1].origin = "matchedentry"

\* The exchange is found but unusable: capture error or missing status.
Unusable(entryResponse) == entryResponse.error # "" \/ entryResponse.status = 0

\* C1: a request that matches no exchange and for which no mapping yields a
\* path is answered 404 with a plain-text body and origin 'noentrymatch';
\* serveEntry sets no header for it and the file reader is not called.
C1_NoMatchIs404 ==
  \A r \in Requests :
    (Started(r) /\ Matched(r) = 0 /\ Hits(r) = {}) =>
      /\ req[r].pc = "done"
      /\ req[r].response.statusCode = 404
      /\ req[r].response.ended = 1
      /\ req[r].response.body = Some(StringBody(<<"404 Not found">>))
      /\ GetHeader(req[r].response.headers, "Content-Type") = <<TextPlain>>
      /\ req[r].summary # None
      /\ req[r].summary[1].origin = "noentrymatch"
      /\ req[r].summary[1].status = 404
      /\ req[r].response.setHeaderCalls = << >>
      /\ req[r].readFileCalls = << >>

C1_Witness ==
  \E r \in Requests :
    /\ Started(r) /\ Matched(r) = 0 /\ Hits(r) = {}
    /\ entries # << >>
    /\ options.config.mappings # << >>
    /\ req[r].response.statusCode = 404

\* The 410 a blocked exchange is answered with.
Blocked410(r, entryResponse) ==
  LET error == IF entryResponse.error # "" THEN JsonStringify(entryResponse.error)
               ELSE "Missing status"
  IN  /\ req[r].pc = "done"
      /\ req[r].response.statusCode = 410
      /\ req[r].response.ended = 1
      /\ req[r].response.body =
           Some(StringBody(<<"HAR response error: ", error, BlockedNote>>))
      /\ req[r].summary # None
      /\ req[r].summary[1].origin = "clientblocked"

\* C2 as stated: whatever the mappings, a finished request whose matched
\* exchange has a capture error or no status is answered 410 with origin
\* 'clientblocked'.
C2_Original ==
  \A r \in Requests :
    (Finished(r) /\ Matched(r) # 0
       /\ Unusable(entries[Matched(r)].response)) =>
      Blocked410(r, entries[Matched(r)].response)

\* C2, amended: when no mapping yields a path for the request, a matched
\* exchange with a capture error or no status is answered 410 with origin
\* 'clientblocked', and the body is the explanation, not the recorded body.
C2_BlockedIs410 ==
  \A r \in Requests :
    (Started(r) /\ Hits(r) = {} /\ Matched(r) # 0
       /\ Unusable(entries[Matched(r)].response)) =>
      /\ Blocked410(r, entries[Matched(r)].response)
      /\ req[r].response.body[1].bytes = << >>
      /\ req[r].response.setHeaderCalls = << >>

C2_Witness ==
  \E r \in Requests :
    /\ Started(r) /\ Hits(r) = {} /\ Matched(r) # 0
    /\ entries[Matched(r)].response.error = ""
    /\ entries[Matched(r)].response.status = 0
    /\ options.config.mappings # << >>
    /\ req[r].response.statusCode = 410

\* C3: the mappings are evaluated in order and the first that yields a path
\* wins: the file reader is called exactly once, with that path resolved
\* against resolvePath, and no later mapping is consulted; without such a
\* mapping the file reader is never called.
C3_FirstMappingWins ==
  \A r \in Requests :
    Started(r) =>
      IF Hits(r) = {}
      THEN /\ req[r].readFileCalls = << >>
           /\ req[r].consulted = Len(options.config.mappings)
      ELSE \E k \in Hits(r) :
             /\ \A j \in Hits(r) : k <= j
             /\ req[r].consulted = k
             /\ req[r].readFileCalls =
                  <<PathResolve(options.resolvePath,
                                options.config.mappings[k][req[r].url])>>

C3_Witness ==
  \E r \in Requests :
    /\ Finished(r)
    /\ Cardinality(Hits(r)) = 2
    /\ options.config.mappings[1][req[r].url]
         # options.config.mappings[2][req[r].url]
    /\ Len(req[r].readFileCalls) = 1
    /\ PathString(req[r].readFileCalls[1]) = "/root/conf/public/app.js"

\* The response names the path: in its body, its status message or a header.
Mentions(response, path) ==
  \/ \E k \in 1..Len(response.body[1].parts) :
       response.body[1].parts[k] = PathString(path)
  \/ response.statusMessage = PathString(path)
  \/ \E k \in 1..Len(response.headers) :
       \E v \in 1..Len(response.headers[k].values) :
         response.headers[k].values[v] = PathString(path)

\* C4 as stated: a mapped request whose file read fails is answered at once
\* with a 404 whose response references the attempted path, and the failure
\* is logged as an error.
C4_Original ==
  \A r \in Requests :
    (Finished(r) /\ Hits(r) # {}
       /\ ReadFile(options.fs, req[r].localPath) = None) =>
      /\ req[r].response.statusCode = 404
      /\ req[r].response.ended = 1
      /\ Len(req[r].readFileCalls) = 1
      /\ req[r].errors # << >>
      /\ Mentions(req[r].response, req[r].localPath)

\* C5: a response served by serveEntry has status 200 if the recorded status
\* is 304 and the recorded status otherwise; it never has status 304.
C5_Status304Is200 ==
  \A r \in Requests :
    ServedEntry(r) =>
      /\ req[r].response.statusCode =
           (IF EntryResponse(r).status = 304 THEN 200 ELSE EntryResponse(r).status)
      /\ req[r].response.statusCode # 304
      /\ req[r].summary[1].status = req[r].response.statusCode

C5_Witness ==
  \E r \in Requests :
    /\ ServedEntry(r)
    /\ EntryResponse(r).status = 304
    /\ req[r].response.statusCode = 200

\* C6 as stated: once the file read (if any) has completed, the response has
\* been ended exactly once and no error has escaped the handling.
C6_Original ==
  \A r \in Requests :
    (Started(r) /\ req[r].pc # "reading") =>
      /\ req[r].pc = "done"
      /\ req[r].response.ended = 1

NoCacheValue == "no-cache, no-store, must-revalidate"

\* C7: in a response produced by serveEntry no header of the recorded set is
\* emitted under the name content-length, content-encoding, cache-control or
\* pragma (in any casing), and the final headers hold cache-control with
\* exactly 'no-cache, no-store, must-revalidate' and pragma with exactly
\* 'no-cache'.
C7_DroppedAndNoCache ==
  \A r \in Requests :
    ServedEntry(r) =>
      /\ \A k \in 1..Len(req[r].response.setHeaderCalls) :
           ToLowerCase(req[r].response.setHeaderCalls[k].name) \notin DroppedNames
      /\ \A k \in 1..Len(req[r].response.headers) :
           req[r].response.headers[k].key
             \notin {"content-length", "content-encoding"}
      /\ GetHeader(req[r].response.headers, "Cache-Control") = <<NoCacheValue>>
      /\ GetHeader(req[r].response.headers, "PRAGMA") = <<"no-cache">>

\* A header of some name is recorded for the exchange of request r.
Recorded(r, names) ==
  \E k \in 1..Len(EntryResponse(r).headers) :
    EntryResponse(r).headers[k].name \in names

C7_Witness ==
  \E r \in Requests :
    /\ ServedEntry(r)
    /\ Recorded(r, {"Cache-Control"})
    /\ Recorded(r, {"X-Foo"})
    /\ \E t \in 1..Len(options.config.responseHeaderTransforms) :
         options.config.responseHeaderTransforms[t].nameImage = "Cache-Control"
    /\ req[r].response.setHeaderCalls = << >>

\* The response of a request that is the first one served.
Alone(request) ==
  LET entry == Heuristic(entries, request)
      mapped == MapRequest(options.config.mappings, request.url,
                           options.resolvePath)
      read == ReadFile(options.fs, mapped.localPath)
      err == ServeError(NewResponse,
                        IF entry = 0 THEN None ELSE Some(entries[entry].response),
                        NoPath)
  IN  IF Truthy(mapped.localPath) THEN
        IF read = None
        THEN ServeError(NewResponse, None, mapped.localPath).response
        ELSE ServeEntry(NewResponse,
                        IF entry = 0 THEN ShimResponse(mapped.localPath)
                        ELSE entries[entry].response,
                        read, options.config).response
      ELSE IF err.served THEN err.response
      ELSE ServeEntry(NewResponse, entries[entry].response, None,
                      options.config).response

\* C8 as stated: the response to a request is the same after any sequence of
\* earlier requests as when the request is the first one served.
C8_Original ==
  \A r \in Requests : Finished(r) => req[r].response = Alone(RequestOf(r))

\* The bytes serveEntry sends for an exchange served from the trace: the
\* decoded text, with the replacements applied when it is not binary.
RecordedContent(entryResponse) ==
  LET ct == ExtractContentType(entryResponse)
      textual == IF ct = None THEN FALSE ELSE ~IsBinary(ct)
  IN  IF textual
      THEN Utf8Encode(ApplyReplacements(options.config.replacements,
                                        Utf8Decode(DecodedBuffer(entryResponse))))
      ELSE DecodedBuffer(entryResponse)

\* The request's method and path match exactly the exchange i, and the query
\* parameters are those of the exchange.
UniqueExact(r, i) ==
  /\ Candidates(entries, RequestOf(r)) = {i}
  /\ UrlParse(entries[i].request.url).query = UrlParse(req[r].url).query

\* C9 as stated: a request whose method and path match exactly one exchange,
\* with the same query parameters, gets that exchange from the entry matcher
\* wherever it stands in the trace, and with no mappings and a usable
\* exchange the listener serves the exchange's status (304 as 200) and content.
C9_Original ==
  \A r \in Requests : \A i \in 1..Len(entries) :
    (Started(r) /\ UniqueExact(r, i)) =>
      /\ req[r].entry = i
      /\ (options.config.mappings = << >> /\ ~Unusable(entries[i].response)) =>
           /\ ServedEntry(r)
           /\ req[r].response.statusCode = ServedStatus(entries[i].response.status)
           /\ req[r].response.body =
                Some(BufferBody(RecordedContent(entries[i].response)))

\* The header transforms neither change the value of a content-type header
\* nor give another header the name content-type.
LeaveContentType(headers, resolved, transforms) ==
  \A k \in 1..Len(headers) :
    LET isType == ToLowerCase(headers[k].name) = "content-type"
        before == [name |-> headers[k].name,
                   value |-> IF isType THEN resolved ELSE headers[k].value]
        after == ApplyTransforms(transforms, before)
    IN  ToLowerCase(after.name) = "content-type" =>
          isType /\ after.value = before.value

\* Every emitted header named content-type carries the resolved type.
ContentTypeResolved(r) ==
  \A k \in 1..Len(req[r].response.setHeaderCalls) :
    ToLowerCase(req[r].response.setHeaderCalls[k].name) = "content-type" =>
      req[r].response.setHeaderCalls[k].value = req[r].summary[1].contentType

\* C10 as stated: whatever the recorded headers and the header transforms,
\* every emitted content-type header carries the resolved content type.
C10_Original == \A r \in Requests : ServedEntry(r) => ContentTypeResolved(r)

\* C10, amended: a recorded content-type header is given the resolved type
\* before the header transforms run, so every emitted content-type header
\* carries the resolved type unless a transform changed the value of a
\* content-type header or gave another header that name.
C10_ContentTypeRewritten ==
  \A r \in Requests :
    (ServedEntry(r)
       /\ LeaveContentType(EntryResponse(r).headers,
                           req[r].summary[1].contentType,
                           options.config.responseHeaderTransforms)) =>
      ContentTypeResolved(r)

C10_Witness ==
  \E r \in Requests :
    /\ ServedEntry(r)
    /\ options.config.responseHeaderTransforms # << >>
    /\ LeaveContentType(EntryResponse(r).headers,
                        req[r].summary[1].contentType,
                        options.config.responseHeaderTransforms)
    /\ Recorded(r, {"Content-Type"})
    /\ req[r].response.setHeaderCalls
         = <<[name |-> "Content-Type", value |-> "text/html;charset=utf8"]>>

\* C11 as stated: the buffer cached on every exchange of the trace is unset
\* or holds the decoding (base64 or raw, as isBase64Encoded tells) of the
\* exchange's own stored text.
C11_Original ==
  \A i \in 1..Len(entries) :
    \/ buffers[i] = None
    \/ buffers[i] = Some(DecodedBuffer(entries[i].response))

\* The size test of the claim: S / 0.75 <= L <= S / 0.75 + 4.
SizeFits(size, length) == 4 * size <= 3 * length /\ 3 * length <= 4 * size + 12

\* C12 as stated: for every declared size S >= 0 and stored text of length
\* L >= 0, the text is classified and decoded as base64 if and only if
\* S / 0.75 <= L <= S / 0.75 + 4, and as raw text otherwise.
C12_Original ==
  \A i \in 1..Len(entries) :
    LET content == entries[i].response.content
        fits == SizeFits(content.size, Len(content.text))
    IN  buffers[i] # None =>
          /\ IsBase64Encoded(entries[i].response) <=> fits
          /\ buffers[i] = Some(IF fits THEN Base64Decode(content.text)
                               ELSE Utf8Encode(content.text))

\* C12: for every declared size S >= 0 and stored text of length L >= 0, the
\* text is classified and decoded as base64 if and only if L > 0 and
\* S / 0.75 <= L <= S / 0.75 + 4; otherwise (an empty text included) it is
\* decoded as raw text.
C12_Base64Detection ==
  \A i \in 1..Len(entries) :
    LET content == entries[i].response.content
        fits == /\ Len(content.text) > 0
                /\ SizeFits(content.size, Len(content.text))
    IN  buffers[i] # None =>
          /\ IsBase64Encoded(entries[i].response) <=> fits
          /\ buffers[i] = Some(IF fits THEN Base64Decode(content.text)
                               ELSE Utf8Encode(content.text))

\* A served exchange at the lower limit of the test (S = 3, L = 4), decoded
\* as base64.
C12_Witness ==
  \E r \in Requests :
    /\ ServedEntry(r)
    /\ req[r].entry # 0
    /\ entries[req[r].entry].response.content.size = 3
    /\ entries[req[r].entry].response.content.text = <<"Q", "Q", "=", "=">>
    /\ buffers[req[r].entry] = Some(<<65>>)

\* The buffer serveEntry worked on for request r: the shim entry's or the
\* matched exchange's.
BufferOf(r) ==
  IF req[r].shim # None THEN req[r].shimBuffer[1] ELSE buffers[req[r].entry][1]

\* C13: a served content is handled as binary exactly when its resolved type
\* is not a text type, not an XML type and not of subtype json; for binary
\* content no replacement function is called and the bytes sent are the
\* exchange's decoded buffer, whatever the replacement list; other content is
\* sent with every replacement applied in order.
C13_BinaryPassThrough ==
  \A r \in Requests :
    ServedEntry(r) =>
      LET ct == ExtractContentType(EntryResponse(r))[1]
          binary == /\ ct.type # "text"
                    /\ ~IsXML(ct)
                    /\ ct.subtype # "json"
          rules == options.config.replacements
      IN  IF binary
          THEN /\ req[r].replacementCalls = 0
               /\ req[r].response.body = Some(BufferBody(BufferOf(r)))
               /\ req[r].summary[1].contentType = ContentTypeString(ct)
          ELSE /\ req[r].replacementCalls = Len(rules)
               /\ req[r].response.body =
                    Some(BufferBody(Utf8Encode(
                      ApplyReplacements(rules, Utf8Decode(BufferOf(r))))))
               /\ req[r].summary[1].contentType =
                    ContentTypeString([ct EXCEPT !.charset = "utf8"])

\* A PNG exchange stored as raw text is served with a replacement list that
\* would change its bytes, and the bytes sent are the decoded buffer.
C13_Witness ==
  \E r \in Requests :
    /\ ServedEntry(r)
    /\ req[r].shim = None
    /\ entries[req[r].entry].response.content.mimeType = "image/png"
    /\ BufferOf(r) = Utf8Encode(<<"Q", "Q", "=", "=">>)
    /\ ApplyReplacements(options.config.replacements, Utf8Decode(BufferOf(r)))
         # Utf8Decode(BufferOf(r))
    /\ req[r].response.body = Some(BufferBody(BufferOf(r)))
    /\ req[r].replacementCalls = 0

\* console.error reported a content-size inconsistency for request r.
SizeErrorLogged(r) ==
  \E k \in 1..Len(req[r].errors) :
    req[r].errors[k] =
      <<"Error:", "has a non-zero size, but there is no content in the HAR file">>

\* C14 as stated: a content-size inconsistency is logged for a served
\* exchange exactly when the exchange declares a size greater than zero and
\* the content produced for it is empty, and the response is completed with
\* that content.
C14_Original ==
  \A r \in Requests :
    ServedEntry(r) =>
      /\ req[r].response.ended = 1
      /\ SizeErrorLogged(r) <=>
           /\ EntryResponse(r).content.size > 0
           /\ req[r].response.body = Some(BufferBody(<< >>))

\* The read of request r is pending.
Pending(r) == req[r].pc = "reading"

\* The bytes serveEntry sends for the file read for request r: the file's
\* content, with the replacements applied when it is not binary.
OwnFileContent(r) ==
  LET read == ReadFile(options.fs, req[r].localPath)[1]
      ct == ExtractContentType(EntryResponse(r))
      textual == IF ct = None THEN FALSE ELSE ~IsBinary(ct)
  IN  IF textual
      THEN Utf8Encode(ApplyReplacements(options.config.replacements,
                                        Utf8Decode(read)))
      ELSE read

\* C15 as stated: while the file read of a request is pending, every other
\* request that has arrived and has no pending read of its own has received
\* its complete response, and a mapped one whose read completed has been
\* answered with the content of the file of its own path.
C15_Original ==
  \A q \in Requests : \A r \in Requests \ {q} :
    (Pending(q) /\ Started(r) /\ ~Pending(r)) =>
      /\ req[r].pc = "done"
      /\ req[r].response.ended = 1
      /\ req[r].response.body # None
      /\ (Hits(r) # {} /\ ReadFile(options.fs, req[r].localPath) # None) =>
           req[r].response.body = Some(BufferBody(OwnFileContent(r)))

============================================================================
